---- MODULE Spec2Model ----
(***************************************************************************)
(* rust-displaytest: src/main.rs drives an SSD1306 OLED over SPI.          *)
(*                                                                         *)
(* The module models                                                       *)
(*   - the two adapter shims, PinAdapter and SpiAdapter, as operators on   *)
(*     the underlying platform handle, exercised by a call harness         *)
(*     (SpecAdapter) with inputs drawn from bounded sets;                  *)
(*   - main() as a sequential program, one action per statement (Spec),    *)
(*     with every fallible call's outcome chosen by the environment.       *)
(*                                                                         *)
(* What the platform handles see (pin levels driven, sleeps, bytes handed  *)
(* to the bus) is recorded in the sequence `trace`, as a mock pin/bus pair *)
(* would observe it.                                                       *)
(***************************************************************************)
EXTENDS Integers, Sequences, FiniteSets, TLC

VARIABLES
    pc,       \* main's position (the statement about to run)
    exit,     \* main's return value: "none" while running, else "Ok"/"Err"
    stdout,   \* the lines printed so far
    trace,    \* platform-level events, in order
    fb,       \* the driver's local frame buffer: the set of lit pixels
    gddram,   \* the controller's display memory, as a byte sequence
    slept,    \* idle-loop iterations completed (saturating)
    oplog,    \* main's fallible calls so far: [op, ok, tlen], tlen the length
              \* of trace when the call returned
    hpin,     \* harness: the platform pin handle [level, fault]
    hbus,     \* harness: bytes the platform bus call has been handed, per call
    hlog      \* harness: one record per adapter call

vars == <<pc, exit, stdout, trace, fb, gddram, slept, oplog, hpin, hbus, hlog>>

mainVars == <<pc, exit, stdout, trace, fb, gddram, slept, oplog>>
harnessVars == <<hpin, hbus, hlog>>

----------------------------------------------------------------------------
(* Bounds of the model *)

\* longest byte sequence the harness hands to SpiAdapter::write
MaxLen == 2
\* adapter calls made by the harness in one run
MaxCalls == 2
\* idle-loop iterations counted before the counter saturates
MaxIdle == 2
\* command transmissions of the controller's initialization sequence
NumInitCmds == 3

\* byte values the harness draws from
Bytes == {0, 255}

\* errors the platform bus write can return to the harness
PlatformErrors == {"Io(EIO)", "Io(ETIMEDOUT)"}

----------------------------------------------------------------------------
(* PinAdapter: main.rs 35-49 *)

\* rppal's OutputPin::set_low / set_high return nothing; on a faulted line
\* (unavailable, disconnected) the level is not established, and nothing is
\* reported to the caller.
PlatformPinSet(h, level) ==
    [h EXCEPT !.level = IF h.fault THEN h.level ELSE level,
              !.calls = Append(h.calls, level)]

\* faulty variant: the adapter reports the line's fault instead of Ok
PinResultPassThrough(h) ==
    IF h.fault THEN "Err" ELSE "Ok"

\* the value both set_low and set_high return: `Ok(())`, unconditionally
PinAdapterResult(h) ==
    "Ok"

\* fn set_low(&mut self): self.0.set_low(); Ok(())
PinAdapter_set_low(h) ==
    [handle |-> PlatformPinSet(h, 0), result |-> PinAdapterResult(h)]

\* fn set_high(&mut self): self.0.set_high(); Ok(())
PinAdapter_set_high(h) ==
    [handle |-> PlatformPinSet(h, 1), result |-> PinAdapterResult(h)]

----------------------------------------------------------------------------
(* SpiAdapter: main.rs 52-61 *)

\* faulty variant: the adapter drops the first byte before handing the data on
SpiPassedDropFirst(data) ==
    IF data = <<>> THEN data ELSE Tail(data)

\* the slice handed to the platform call: `self.0.write(data)`
SpiPassed(data) ==
    data

\* `self.0.write(data)?; Ok(())`: the platform's Ok(count) becomes Ok(()),
\* its Err(e) is returned by `?` as it is (From<E> for E is the identity)
SpiAdapterResult(outcome) ==
    IF outcome = "ok" THEN "Ok" ELSE outcome

\* fn write(&mut self, data: &[u8]); `outcome` is what the platform call
\* returns: "ok", or the error
SpiAdapter_write(data, outcome) ==
    [passed |-> <<SpiPassed(data)>>, result |-> SpiAdapterResult(outcome)]

----------------------------------------------------------------------------
(* Program constants of main *)

\* gpio.get(25): data/command select
DC_PIN == 25
\* gpio.get(24): reset
RST_PIN == 24
\* gpio.get(8): chip select
CS_PIN == 8
\* Duration::from_millis(1) between the first and second reset transition
RESET_HOLD_HIGH_MS == 1
\* Duration::from_millis(10) between the second and third reset transition
RESET_HOLD_LOW_MS == 10
\* Duration::from_secs(1) of the idle loop, in milliseconds
IDLE_SLEEP_MS == 1000
\* DisplaySize128x64
DISPLAY_WIDTH == 128
DISPLAY_HEIGHT == 64
\* FONT_6X10: character cell
FONT_WIDTH == 6
FONT_HEIGHT == 10
\* "Raspberry Pi Zero W"
TEXT1_LEN == 19
\* "SSD1306 OLED"
TEXT2_LEN == 12

NumPages == DISPLAY_HEIGHT \div 8
BufferLen == DISPLAY_WIDTH * NumPages

----------------------------------------------------------------------------
(* Platform events *)

PinEv(pin, level) ==
    [op |-> "pin", pin |-> pin, val |-> level, data |-> <<>>]

SleepEv(ms) ==
    [op |-> "sleep", pin |-> 0, val |-> ms, data |-> <<>>]

\* val: 1 when the platform write returned Ok, 0 when it returned Err
SpiEv(data, outcome) ==
    [op |-> "spi", pin |-> 0, val |-> IF outcome = "ok" THEN 1 ELSE 0, data |-> data]

\* a freshly acquired output line: gpio.get(n)?.into_output()
NewPinHandle ==
    [level |-> 0, fault |-> FALSE, calls |-> <<>>]

\* a set call on one of main's three PinAdapters, seen on the platform side
PinSet(t, pin, level) ==
    LET r == IF level = 1 THEN PinAdapter_set_high(NewPinHandle)
                          ELSE PinAdapter_set_low(NewPinHandle)
    IN  [trace  |-> t \o [i \in 1..Len(r.handle.calls) |-> PinEv(pin, r.handle.calls[i])],
         result |-> r.result]

\* a write on main's SpiAdapter, seen on the platform side
BusWrite(t, data, outcome) ==
    LET w == SpiAdapter_write(data, outcome)
    IN  [trace  |-> t \o [i \in 1..Len(w.passed) |-> SpiEv(w.passed[i], outcome)],
         result |-> w.result]

----------------------------------------------------------------------------
(* Display transport (display-interface-spi SPIInterface over the adapters): *)
(* chip select low, data/command line set, bus write, chip select high.      *)

\* one transmission; isData selects the data/command level (1 = data)
Send(t, isData, bytes, outcome) ==
    LET c == PinSet(t, CS_PIN, 0)
    IN  IF c.result = "Err" THEN [trace |-> c.trace, result |-> "Err"]
        ELSE LET d == PinSet(c.trace, DC_PIN, IF isData THEN 1 ELSE 0)
             IN  IF d.result = "Err"
                 THEN [trace |-> PinSet(d.trace, CS_PIN, 1).trace, result |-> "Err"]
                 ELSE LET w == BusWrite(d.trace, bytes, outcome)
                      IN  [trace  |-> PinSet(w.trace, CS_PIN, 1).trace,
                           result |-> IF w.result = "Ok" THEN "Ok" ELSE "Err"]

\* the controller's configuration commands (SSD1306 opcodes); the last one
\* sent is display-on
InitCmdTable ==
    << <<174>>, <<213, 128>>, <<168, 63>>, <<211, 0>>, <<64>>, <<141, 20>>, <<32, 0>> >>

InitCmd(k) ==
    IF k = NumInitCmds THEN <<175>>
    ELSE InitCmdTable[((k - 1) % Len(InitCmdTable)) + 1]

\* commands k..NumInitCmds in order, stopping at the first failed write;
\* failAt is the index of the command whose bus write fails (0: none)
RECURSIVE SendInitCmds(_, _, _)
SendInitCmds(t, k, failAt) ==
    IF k > NumInitCmds THEN [trace |-> t, result |-> "Ok"]
    ELSE LET r == Send(t, FALSE, InitCmd(k), IF k = failAt THEN "err" ELSE "ok")
         IN  IF r.result = "Err" THEN r
             ELSE SendInitCmds(r.trace, k + 1, failAt)

----------------------------------------------------------------------------
(* Frame buffer and rasterization (ssd1306 buffered graphics mode,           *)
(* embedded-graphics primitives)                                             *)

Pixels ==
    (0..(DISPLAY_WIDTH - 1)) \X (0..(DISPLAY_HEIGHT - 1))

InBounds(p) ==
    /\ p[1] >= 0 /\ p[1] < DISPLAY_WIDTH
    /\ p[2] >= 0 /\ p[2] < DISPLAY_HEIGHT

\* DrawTarget::draw_iter with BinaryColor::On: pixels outside the buffer are
\* dropped, the rest are lit
DrawOn(buf, pts) ==
    buf \cup {p \in pts : InBounds(p)}

Abs(n) ==
    IF n < 0 THEN -n ELSE n

Sgn(n) ==
    IF n < 0 THEN -1 ELSE IF n > 0 THEN 1 ELSE 0

\* the pixels of a 1-pixel line from a to b (Bresenham)
RECURSIVE LineFrom(_, _, _, _, _, _, _)
LineFrom(x, y, bx, by, dx, dy, err) ==
    IF x = bx /\ y = by THEN {<<x, y>>}
    ELSE LET e2 == 2 * err
             stepx == e2 > -dy
             stepy == e2 < dx
             nx == IF stepx THEN x + Sgn(bx - x) ELSE x
             ny == IF stepy THEN y + Sgn(by - y) ELSE y
             nerr == err - (IF stepx THEN dy ELSE 0) + (IF stepy THEN dx ELSE 0)
         IN  {<<x, y>>} \cup LineFrom(nx, ny, bx, by, dx, dy, nerr)

Line(a, b) ==
    LET dx == Abs(b[1] - a[1])
        dy == Abs(b[2] - a[2])
    IN  LineFrom(a[1], a[2], b[1], b[2], dx, dy, dx - dy)

\* Triangle::new(p1, p2, p3) with a 1-pixel stroke: its three edges
TriangleStroke(p1, p2, p3) ==
    Line(p1, p2) \cup Line(p2, p3) \cup Line(p3, p1)

\* Rectangle::new(top_left, size) with a 1-pixel stroke: the border of the
\* size.w x size.h box whose top-left pixel is top_left
RectangleStroke(tl, w, h) ==
    {p \in (tl[1]..(tl[1] + w - 1)) \X (tl[2]..(tl[2] + h - 1)) :
        \/ p[1] = tl[1] \/ p[1] = tl[1] + w - 1
        \/ p[2] = tl[2] \/ p[2] = tl[2] + h - 1}

\* embedded-graphics compares squared distances scaled by 2 against this
\* threshold for a circle of the given diameter
DiameterToThreshold(d) ==
    IF d <= 4 THEN d * d - (d \div 2) ELSE d * d

\* scaled squared distance of pixel p from the centre of the circle whose
\* bounding box has top-left pixel tl and side d
Distance2x(p, tl, d) ==
    LET cx == 2 * tl[1] + (d - 1)
        cy == 2 * tl[2] + (d - 1)
    IN  (2 * p[1] - cx) * (2 * p[1] - cx) + (2 * p[2] - cy) * (2 * p[2] - cy)

\* a 1-pixel stroke (centre-aligned: wholly inside the outline) of the circle
\* with bounding box top-left tl and diameter d
CircleStroke(tl, d) ==
    {p \in (tl[1]..(tl[1] + d - 1)) \X (tl[2]..(tl[2] + d - 1)) :
        /\ Distance2x(p, tl, d) < DiameterToThreshold(d)
        /\ \/ d <= 2
           \/ Distance2x(p, tl, d) >= DiameterToThreshold(d - 2)}

\* Circle::with_center(c, d): the circle of diameter d centred on pixel c
CircleWithCenter(c, d) ==
    [top_left |-> <<c[1] - ((d - 1) \div 2), c[2] - ((d - 1) \div 2)>>, diameter |-> d]

\* the circle with centre c and radius r: diameter 2r + 1 pixels
CircleCenterRadius(p, n) ==
    CircleWithCenter(p, 2 * n + 1)

\* Circle::new(top_left, diameter), the embedded-graphics API that the imports
\* of main.rs select (mono_font, text::Baseline): the first argument is the
\* top-left corner of the bounding box, the second the diameter
Circle_new(p, n) ==
    [top_left |-> p, diameter |-> n]

\* glyph bitmaps are font data; a glyph is modelled by one of these cell
\* patterns, the same for every character of a run
GlyphPatterns == {"blank", "bar", "box"}

\* the character cell of the font
FontCell ==
    (0..(FONT_WIDTH - 1)) \X (0..(FONT_HEIGHT - 1))

GlyphCell(g) ==
    CASE g = "blank" -> {}
      [] g = "bar"   -> {p \in FontCell : p[1] = 2 /\ p[2] >= 1 /\ p[2] <= 7}
      [] OTHER       -> {p \in FontCell : /\ p[1] <= 4 /\ p[2] >= 1 /\ p[2] <= 7
                                          /\ (p[1] \in {0, 4} \/ p[2] \in {1, 7})}

\* Text::with_baseline(s, position, style, Baseline::Top) with no background:
\* only glyph pixels are lit, character i in the cell FONT_WIDTH * i to the right
TextPixels(len, pos, g) ==
    {<<pos[1] + FONT_WIDTH * i + q[1], pos[2] + q[2]>> :
        i \in 0..(len - 1), q \in GlyphCell(g)}

----------------------------------------------------------------------------
(* The scene of main: main.rs 111-152 *)

\* Triangle::new(Point::new(16, 16), Point::new(16 + 16, 16), Point::new(16 + 8, 16 - 8))
SceneTriangle ==
    TriangleStroke(<<16, 16>>, <<16 + 16, 16>>, <<16 + 8, 16 - 8>>)

\* Circle::new(Point::new(64, 32), 8)
SceneCircleShape ==
    Circle_new(<<64, 32>>, 8)

SceneCircle ==
    CircleStroke(SceneCircleShape.top_left, SceneCircleShape.diameter)

\* Rectangle::new(Point::new(80, 16), Size::new(32, 32))
SceneRectangle ==
    RectangleStroke(<<80, 16>>, 32, 32)

\* Text::with_baseline("Raspberry Pi Zero W", Point::new(5, 5), ..)
SceneText1(g) ==
    TextPixels(TEXT1_LEN, <<5, 5>>, g)

\* Text::with_baseline("SSD1306 OLED", Point::new(5, 50), ..)
SceneText2(g) ==
    TextPixels(TEXT2_LEN, <<5, 50>>, g)

----------------------------------------------------------------------------
(* Flush: the frame buffer in the controller's page/column byte layout *)

Pow2(b) ==
    CASE b = 0 -> 1 [] b = 1 -> 2 [] b = 2 -> 4 [] b = 3 -> 8
      [] b = 4 -> 16 [] b = 5 -> 32 [] b = 6 -> 64 [] OTHER -> 128

\* byte of column x in page pg: bit b is pixel (x, 8 * pg + b)
PageByte(buf, pg, x) ==
    LET bit(b) == IF <<x, 8 * pg + b>> \in buf THEN Pow2(b) ELSE 0
    IN  bit(0) + bit(1) + bit(2) + bit(3) + bit(4) + bit(5) + bit(6) + bit(7)

\* the bytes of page pg, columns left to right
PageBytes(buf, pg) ==
    [i \in 1..DISPLAY_WIDTH |-> PageByte(buf, pg, i - 1)]

\* the pixels a display memory image shows
Shown(mem) ==
    {p \in Pixels :
        (mem[(p[2] \div 8) * DISPLAY_WIDTH + p[1] + 1] \div Pow2(p[2] % 8)) % 2 = 1}

\* the controller stores a received page at its place in display memory
StorePage(mem, pg, bytes) ==
    [i \in 1..BufferLen |->
        IF i > pg * DISPLAY_WIDTH /\ i <= pg * DISPLAY_WIDTH + Len(bytes)
        THEN bytes[i - pg * DISPLAY_WIDTH] ELSE mem[i]]

\* faulty variant: flush skips the last page
FlushPagesShort ==
    NumPages - 1

\* pages flush transmits: all of them
FlushPages ==
    NumPages

\* pages pg..FlushPages-1 as data transmissions, stopping at the first failed
\* write; failAt is the page whose write fails (-1: none)
RECURSIVE SendPages(_, _, _, _, _)
SendPages(t, mem, buf, pg, failAt) ==
    IF pg >= FlushPages THEN [trace |-> t, mem |-> mem, result |-> "Ok"]
    ELSE LET r == Send(t, TRUE, PageBytes(buf, pg), IF pg = failAt THEN "err" ELSE "ok")
         IN  IF r.result = "Err" THEN [trace |-> r.trace, mem |-> mem, result |-> "Err"]
             ELSE SendPages(r.trace, StorePage(mem, pg, PageBytes(buf, pg)), buf, pg + 1, failAt)

\* flush: the draw-area commands (column range, page range), then the buffer;
\* failAt: -2 the column command fails, -3 the page command fails,
\* 0..NumPages-1 that page's data write fails, -1 nothing fails
Flush(t, mem, buf, failAt) ==
    LET c1 == Send(t, FALSE, <<33, 0, DISPLAY_WIDTH - 1>>, IF failAt = -2 THEN "err" ELSE "ok")
    IN  IF c1.result = "Err" THEN [trace |-> c1.trace, mem |-> mem, result |-> "Err"]
        ELSE LET c2 == Send(c1.trace, FALSE, <<34, 0, NumPages - 1>>,
                            IF failAt = -3 THEN "err" ELSE "ok")
             IN  IF c2.result = "Err" THEN [trace |-> c2.trace, mem |-> mem, result |-> "Err"]
                 ELSE SendPages(c2.trace, mem, buf, 0, failAt)

----------------------------------------------------------------------------
(* main: main.rs 63-167, one action per statement *)

MSG_INIT == "Initializing OLED display..."
MSG_DRAW == "Drawing shapes and text..."
MSG_DONE == "Display initialized and pattern drawn successfully!"
MSG_EXIT == "Press Ctrl+C to exit..."

\* what the panel shows before anything is sent: unknown, all dark or all lit
PowerOnImages ==
    {[i \in 1..BufferLen |-> 0], [i \in 1..BufferLen |-> 255]}

MainInit ==
    /\ pc = "print_init"
    /\ exit = "none"
    /\ stdout = <<>>
    /\ trace = <<>>
    /\ fb = {}
    /\ gddram \in PowerOnImages
    /\ slept = 0
    /\ oplog = <<>>

HarnessIdle ==
    /\ hpin = NewPinHandle
    /\ hbus = <<>>
    /\ hlog = <<>>

Init ==
    MainInit /\ HarnessIdle

\* the record of a call that returned with trace t
Called(op, ok, t) ==
    [op |-> op, ok |-> ok, tlen |-> Len(t)]

\* `return Err(..)` / `?` on an Err: main ends with an error
ReturnErr ==
    /\ pc' = "returned"
    /\ exit' = "Err"

\* a step whose platform call either succeeds or makes main return the error
Acquire(from, to, op) ==
    /\ pc = from
    /\ \E outcome \in {"ok", "err"} :
          /\ oplog' = Append(oplog, Called(op, outcome = "ok", trace))
          /\ IF outcome = "ok" THEN pc' = to /\ exit' = exit ELSE ReturnErr
    /\ UNCHANGED <<stdout, trace, fb, gddram, slept, harnessVars>>

\* line 64
PrintInit ==
    /\ pc = "print_init"
    /\ stdout' = Append(stdout, MSG_INIT)
    /\ pc' = "spi_new"
    /\ UNCHANGED <<exit, trace, fb, gddram, slept, oplog, harnessVars>>

\* line 67: Spi::new(..)?
SpiNew ==
    Acquire("spi_new", "gpio_new", "Spi::new")

\* line 70: Gpio::new()?
GpioNew ==
    Acquire("gpio_new", "get_dc", "Gpio::new")

\* line 71: gpio.get(25)?
GetDc ==
    Acquire("get_dc", "get_rst", "gpio.get(25)")

\* line 72: gpio.get(24)?
GetRst ==
    Acquire("get_rst", "get_cs", "gpio.get(24)")

\* line 73: gpio.get(8)?
GetCs ==
    Acquire("get_cs", "new_display", "gpio.get(8)")

\* lines 76-83: the interface and the buffered display; the buffer starts dark
NewDisplay ==
    /\ pc = "new_display"
    /\ fb' = {}
    /\ pc' = "reset_high"
    /\ UNCHANGED <<exit, stdout, trace, gddram, slept, oplog, harnessVars>>

\* reset_pin.set_high()? / reset_pin.set_low()?
ResetSet(from, to, op, level) ==
    /\ pc = from
    /\ LET r == PinSet(trace, RST_PIN, level)
       IN  /\ trace' = r.trace
           /\ oplog' = Append(oplog, Called(op, r.result = "Ok", r.trace))
           /\ IF r.result = "Ok" THEN pc' = to /\ exit' = exit ELSE ReturnErr
    /\ UNCHANGED <<stdout, fb, gddram, slept, harnessVars>>

\* std::thread::sleep(Duration::from_millis(ms))
SleepMs(from, to, ms) ==
    /\ pc = from
    /\ trace' = Append(trace, SleepEv(ms))
    /\ pc' = to
    /\ UNCHANGED <<exit, stdout, fb, gddram, slept, oplog, harnessVars>>

\* line 86
ResetHigh1 ==
    ResetSet("reset_high", "sleep_1", "reset.set_high#1", 1)

\* line 87
Sleep1 ==
    SleepMs("sleep_1", "reset_low", RESET_HOLD_HIGH_MS)

\* faulty variant: the second transition drives the line high again
ResetLowDrivesHigh ==
    ResetSet("reset_low", "sleep_10", "reset.set_low", 1)

\* line 88
ResetLow ==
    ResetSet("reset_low", "sleep_10", "reset.set_low", 0)

\* line 89
Sleep10 ==
    SleepMs("sleep_10", "reset_high_2", RESET_HOLD_LOW_MS)

\* line 90
ResetHigh2 ==
    ResetSet("reset_high_2", "init", "reset.set_high#2", 1)

\* faulty variant: the result of init is ignored
DisplayInitIgnoresErr ==
    /\ pc = "init"
    /\ \E failAt \in 0..NumInitCmds :
          LET r == SendInitCmds(trace, 1, failAt)
          IN  /\ trace' = r.trace
              /\ oplog' = Append(oplog, Called("init", r.result = "Ok", r.trace))
    /\ pc' = "clear"
    /\ fb' = {}
    /\ UNCHANGED <<exit, stdout, gddram, slept, harnessVars>>

\* lines 93-96: display.init(); the driver darkens its buffer and sends the
\* configuration commands
DisplayInit ==
    /\ pc = "init"
    /\ \E failAt \in 0..NumInitCmds :
          LET r == SendInitCmds(trace, 1, failAt)
          IN  /\ trace' = r.trace
              /\ oplog' = Append(oplog, Called("init", r.result = "Ok", r.trace))
              /\ IF r.result = "Ok" THEN pc' = "clear" /\ exit' = exit ELSE ReturnErr
    /\ fb' = {}
    /\ UNCHANGED <<stdout, gddram, slept, harnessVars>>

\* lines 99-102: display.clear(BinaryColor::Off)
DisplayClear ==
    /\ pc = "clear"
    /\ \E outcome \in {"ok", "err"} :
          /\ oplog' = Append(oplog, Called("clear", outcome = "ok", trace))
          /\ IF outcome = "ok"
             THEN fb' = {} /\ pc' = "print_draw" /\ exit' = exit
             ELSE fb' = fb /\ ReturnErr
    /\ UNCHANGED <<stdout, trace, gddram, slept, harnessVars>>

\* lines 105-108
PrintDrawing ==
    /\ pc = "print_draw"
    /\ stdout' = Append(stdout, MSG_DRAW)
    /\ pc' = "draw_triangle"
    /\ UNCHANGED <<exit, trace, fb, gddram, slept, oplog, harnessVars>>

\* the pixels of the primitive that call op draws; g is the glyph pattern,
\* which only the two labels depend on
ScenePixels(op, g) ==
    CASE op = "draw.triangle"  -> SceneTriangle
      [] op = "draw.circle"    -> SceneCircle
      [] op = "draw.rectangle" -> SceneRectangle
      [] op = "draw.text#1"    -> SceneText1(g)
      [] OTHER                 -> SceneText2(g)

\* `let result = <shape>.draw(&mut display); if let Err(e) = result { return Err(..) }`
Draw(from, to, op) ==
    /\ pc = from
    /\ \E outcome \in {"ok", "err"}, g \in GlyphPatterns :
          /\ oplog' = Append(oplog, Called(op, outcome = "ok", trace))
          /\ IF outcome = "ok"
             THEN fb' = DrawOn(fb, ScenePixels(op, g)) /\ pc' = to /\ exit' = exit
             ELSE fb' = fb /\ ReturnErr
    /\ UNCHANGED <<stdout, trace, gddram, slept, harnessVars>>

\* lines 111-121
DrawTriangle ==
    Draw("draw_triangle", "draw_circle", "draw.triangle")

\* faulty variant: the display is flushed right after the circle is drawn
DrawCircleThenFlush ==
    /\ pc = "draw_circle"
    /\ LET r == Flush(trace, gddram, DrawOn(fb, SceneCircle), -1)
       IN  /\ trace' = r.trace
           /\ gddram' = r.mem
    /\ oplog' = Append(oplog, Called("draw.circle", TRUE, trace))
    /\ fb' = DrawOn(fb, SceneCircle)
    /\ pc' = "draw_rectangle"
    /\ UNCHANGED <<exit, stdout, slept, harnessVars>>

\* lines 123-129
DrawCircle ==
    Draw("draw_circle", "draw_rectangle", "draw.circle")

\* lines 131-137
DrawRectangle ==
    Draw("draw_rectangle", "draw_text_1", "draw.rectangle")

\* faulty variant: the second label is forgotten, flush follows the first
DrawText1ThenFlush ==
    Draw("draw_text_1", "flush", "draw.text#1")

\* lines 140-145
DrawText1 ==
    Draw("draw_text_1", "draw_text_2", "draw.text#1")

\* lines 147-152
DrawText2 ==
    Draw("draw_text_2", "flush", "draw.text#2")

\* faulty variant: the result of flush is ignored
DisplayFlushIgnoresErr ==
    /\ pc = "flush"
    /\ \E failAt \in (-3)..(NumPages - 1) :
          LET r == Flush(trace, gddram, fb, failAt)
          IN  /\ trace' = r.trace
              /\ gddram' = r.mem
              /\ oplog' = Append(oplog, Called("flush", r.result = "Ok", r.trace))
    /\ pc' = "print_done"
    /\ UNCHANGED <<exit, stdout, fb, slept, harnessVars>>

\* lines 155-158: display.flush()
DisplayFlush ==
    /\ pc = "flush"
    /\ \E failAt \in (-3)..(NumPages - 1) :
          LET r == Flush(trace, gddram, fb, failAt)
          IN  /\ trace' = r.trace
              /\ gddram' = r.mem
              /\ oplog' = Append(oplog, Called("flush", r.result = "Ok", r.trace))
              /\ IF r.result = "Ok" THEN pc' = "print_done" /\ exit' = exit ELSE ReturnErr
    /\ UNCHANGED <<stdout, fb, slept, harnessVars>>

\* line 160
PrintDone ==
    /\ pc = "print_done"
    /\ stdout' = Append(stdout, MSG_DONE)
    /\ pc' = "print_exit"
    /\ UNCHANGED <<exit, trace, fb, gddram, slept, oplog, harnessVars>>

\* line 161
PrintExit ==
    /\ pc = "print_exit"
    /\ stdout' = Append(stdout, MSG_EXIT)
    /\ pc' = "idle"
    /\ UNCHANGED <<exit, trace, fb, gddram, slept, oplog, harnessVars>>

\* faulty variant: the loop ends after MaxIdle iterations and main returns Ok(())
IdleLoopBreaks ==
    /\ pc = "idle"
    /\ trace' = IF slept < MaxIdle THEN Append(trace, SleepEv(IDLE_SLEEP_MS)) ELSE trace
    /\ slept' = IF slept < MaxIdle THEN slept + 1 ELSE slept
    /\ pc' = IF slept < MaxIdle THEN "idle" ELSE "returned"
    /\ exit' = IF slept < MaxIdle THEN exit ELSE "Ok"
    /\ UNCHANGED <<stdout, fb, gddram, oplog, harnessVars>>

\* lines 164-166: loop { sleep(1 s) }; the loop has no exit
IdleLoop ==
    /\ pc = "idle"
    /\ trace' = IF slept < MaxIdle THEN Append(trace, SleepEv(IDLE_SLEEP_MS)) ELSE trace
    /\ slept' = IF slept < MaxIdle THEN slept + 1 ELSE slept
    /\ pc' = "idle"
    /\ UNCHANGED <<exit, stdout, fb, gddram, oplog, harnessVars>>

Next ==
    \/ PrintInit \/ SpiNew \/ GpioNew \/ GetDc \/ GetRst \/ GetCs \/ NewDisplay
    \/ ResetHigh1 \/ Sleep1 \/ ResetLow \/ Sleep10 \/ ResetHigh2
    \/ DisplayInit \/ DisplayClear \/ PrintDrawing
    \/ DrawTriangle \/ DrawCircle \/ DrawRectangle \/ DrawText1 \/ DrawText2
    \/ DisplayFlush \/ PrintDone \/ PrintExit \/ IdleLoop

Spec ==
    Init /\ [][Next]_vars

\* main is a sequential program that is always scheduled: a statement that
\* can run does run
FairSpec ==
    Spec /\ WF_vars(Next)

----------------------------------------------------------------------------
(* Call harness for the adapters: any set call on a line that is sound or   *)
(* faulted, any write of a short byte sequence with either platform outcome *)

RECURSIVE SeqsUpTo(_, _)
SeqsUpTo(S, n) ==
    IF n = 0 THEN {<<>>}
    ELSE LET shorter == SeqsUpTo(S, n - 1)
         IN  shorter \cup {Append(q, b) : q \in {r \in shorter : Len(r) = n - 1}, b \in S}

HarnessInit ==
    /\ MainInit
    /\ gddram = [i \in 1..BufferLen |-> 0]
    /\ hpin \in {[level |-> l, fault |-> FALSE, calls |-> <<>>] : l \in {0, 1}}
    /\ hbus = <<>>
    /\ hlog = <<>>

\* a caller invokes set_low (level 0) or set_high (level 1); the line's
\* condition at that moment is the environment's
CallSet(level) ==
    /\ Len(hlog) < MaxCalls
    /\ \E f \in BOOLEAN :
          LET h == [hpin EXCEPT !.fault = f]
              r == IF level = 1 THEN PinAdapter_set_high(h) ELSE PinAdapter_set_low(h)
          IN  /\ hpin' = r.handle
              /\ hlog' = Append(hlog, [call |-> "set", level |-> level, fault |-> f,
                                       data |-> <<>>, platform |-> "none",
                                       result |-> r.result])
    /\ UNCHANGED <<hbus, mainVars>>

CallSetLow ==
    CallSet(0)

CallSetHigh ==
    CallSet(1)

\* a caller invokes write(data); the platform call's outcome is the
\* environment's
CallWrite ==
    /\ Len(hlog) < MaxCalls
    /\ \E data \in SeqsUpTo(Bytes, MaxLen), outcome \in {"ok"} \cup PlatformErrors :
          LET w == SpiAdapter_write(data, outcome)
          IN  /\ hbus' = hbus \o w.passed
              /\ hlog' = Append(hlog, [call |-> "write", level |-> 0, fault |-> FALSE,
                                       data |-> data, platform |-> outcome,
                                       result |-> w.result])
    /\ UNCHANGED <<hpin, mainVars>>

HarnessNext ==
    CallSetLow \/ CallSetHigh \/ CallWrite

SpecAdapter ==
    HarnessInit /\ [][HarnessNext]_vars

----------------------------------------------------------------------------
(* Properties *)

Range(q) ==
    {q[i] : i \in 1..Len(q)}

IsRstEv(e) ==
    e.op = "pin" /\ e.pin = RST_PIN

IsSpiEv(e) ==
    e.op = "spi"

IsBusOrSelectEv(e) ==
    e.op = "spi" \/ (e.op = "pin" /\ e.pin \in {DC_PIN, CS_PIN})

RstEvents ==
    SelectSeq(trace, IsRstEv)

SpiEvents ==
    SelectSeq(trace, IsSpiEv)

\* the calls of main in program order
ProgramOrder ==
    << "Spi::new", "Gpio::new", "gpio.get(25)", "gpio.get(24)", "gpio.get(8)",
       "reset.set_high#1", "reset.set_low", "reset.set_high#2",
       "init", "clear",
       "draw.triangle", "draw.circle", "draw.rectangle", "draw.text#1", "draw.text#2",
       "flush" >>

DrawOps ==
    {"draw.triangle", "draw.circle", "draw.rectangle", "draw.text#1", "draw.text#2"}

\* the call op has returned successfully
Succeeded(op) ==
    \E i \in 1..Len(oplog) : oplog[i].op = op /\ oplog[i].ok

\* the reset pulse as the reset line and the clock see it
ResetPulse ==
    << PinEv(24, 1), SleepEv(1), PinEv(24, 0), SleepEv(10), PinEv(24, 1) >>

InReset ==
    pc \in {"reset_high", "sleep_1", "reset_low", "sleep_10", "reset_high_2"}

\* C1: once main has reached the reset step, the reset line sees exactly the
\* three set calls high, low, high, with a 1 ms sleep between the first two and
\* a 10 ms sleep between the last two, and no set call on it ever after; while
\* the pulse is under way the events so far are a prefix of it.
C1_ResetPulse ==
    /\ \A i \in 1..Len(trace) : i <= Len(ResetPulse) => trace[i] = ResetPulse[i]
    /\ Len(RstEvents) <= 3
    /\ (Len(oplog) > 5 /\ ~InReset) =>
          /\ Len(trace) >= Len(ResetPulse)
          /\ [i \in 1..3 |-> RstEvents[i].val] = <<1, 0, 1>>

C1_Witness ==
    /\ pc = "idle"
    /\ slept > 0
    /\ SubSeq(trace, 1, 5) = ResetPulse
    /\ Len(RstEvents) = 3

\* C2: main's calls happen in program order, each one starting only after the
\* one before it has returned successfully: the reset pulse before init, init
\* and clear before any draw, all five draws before flush; no bus traffic
\* precedes the end of the reset pulse.
C2_ProgramOrder ==
    /\ Len(oplog) <= Len(ProgramOrder)
    /\ \A i \in 1..Len(oplog) :
          /\ oplog[i].op = ProgramOrder[i]
          /\ i < Len(oplog) => oplog[i].ok /\ oplog[i].tlen <= oplog[i + 1].tlen
    /\ \A i \in 1..Len(trace) : IsBusOrSelectEv(trace[i]) => i > Len(ResetPulse)
    /\ (\E i \in 1..Len(oplog) : oplog[i].op = "flush") =>
          \A d \in DrawOps \cup {"init", "clear"} : Succeeded(d)
    /\ (\E i \in 1..Len(oplog) : oplog[i].op \in DrawOps) =>
          Succeeded("init") /\ Succeeded("clear")
    /\ (\E i \in 1..Len(oplog) : oplog[i].op = "init") =>
          Len(RstEvents) = 3 /\ oplog[8].tlen = Len(ResetPulse)

C2_Witness ==
    /\ Succeeded("flush")
    /\ Len(oplog) = Len(ProgramOrder)
    /\ SceneRectangle \subseteq fb

\* C3: a failed call is the last thing main does: nothing is issued after it
\* (no further call, no pin or bus event), nothing is tried twice, main has
\* returned Err and is not in the idle loop; main returns only on a failure.
\* When the bus write of the first initialization command fails, clear, the
\* draws and flush are never called and no other byte is sent.
C3_AbortAtFirstFailure ==
    /\ \A i \in 1..Len(oplog) :
          ~oplog[i].ok =>
              /\ i = Len(oplog)
              /\ Len(trace) = oplog[i].tlen
              /\ pc = "returned" /\ exit = "Err" /\ slept = 0
    /\ \A i, j \in 1..Len(oplog) : oplog[i].op = oplog[j].op => i = j
    /\ pc = "returned" => (oplog # <<>> /\ ~oplog[Len(oplog)].ok)
    /\ (SpiEvents # <<>> /\ SpiEvents[1].val = 0) =>
          /\ Len(SpiEvents) = 1
          /\ \A i \in 1..Len(oplog) : oplog[i].op \notin DrawOps \cup {"clear", "flush"}
          /\ exit = "Err"

C3_Witness ==
    /\ pc = "returned" /\ exit = "Err"
    /\ Len(SpiEvents) = 1 /\ SpiEvents[1].val = 0
    /\ oplog[Len(oplog)].op = "init"

IsSetCall(r) ==
    r.call = "set"

IsWriteCall(r) ==
    r.call = "write"

SetCalls ==
    SelectSeq(hlog, IsSetCall)

WriteCalls ==
    SelectSeq(hlog, IsWriteCall)

C5_WriteIdentity ==
    /\ hbus = [i \in 1..Len(WriteCalls) |-> WriteCalls[i].data]
    /\ \A i \in 1..Len(WriteCalls) :
          /\ (WriteCalls[i].result = "Ok") <=> (WriteCalls[i].platform = "ok")
          /\ WriteCalls[i].platform # "ok" => WriteCalls[i].result = WriteCalls[i].platform

C5_Witness ==
    /\ Len(WriteCalls) = 2
    /\ WriteCalls[1].data = <<0, 255>> /\ WriteCalls[1].result = "Ok"
    /\ WriteCalls[2].data = <<255, 0>> /\ WriteCalls[2].result = "Io(EIO)"
    /\ hbus = << <<0, 255>>, <<255, 0>> >>

\* C6: once flush has succeeded main goes on to the idle loop and reaches it;
\* from the idle loop main never moves on; main never returns Ok: whenever it
\* has returned, it has returned an error.
C6_IdleForever ==
    /\ [][ /\ pc = "idle" => (pc' = "idle" /\ exit' = "none")
           /\ pc \in {"print_done", "print_exit"} => pc' \in {"print_exit", "idle"}
           /\ exit' \in {"none", "Err"}
           /\ (pc' = "returned") <=> (exit' = "Err") ]_vars
    /\ (Succeeded("flush") ~> (pc = "idle" /\ exit = "none"))

C6_Witness ==
    pc = "idle" /\ slept = MaxIdle /\ exit = "none" /\ Succeeded("flush")

BufferOnlyPcs ==
    {"clear", "print_draw", "draw_triangle", "draw_circle", "draw_rectangle",
     "draw_text_1", "draw_text_2"}

\* C7: every step main takes after init has returned and before flush is
\* called (clear, the print, the five draws) leaves the platform untouched: no
\* byte goes to the bus, no pin is driven, the display memory keeps its
\* contents; only the frame buffer changes.
C7_BufferOnly ==
    [][(pc \in BufferOnlyPcs) => (trace' = trace /\ gddram' = gddram)]_vars

C7_Witness ==
    /\ pc = "flush"
    /\ SceneCircle \subseteq fb /\ SceneRectangle \subseteq fb
    /\ Len(trace) = oplog[9].tlen
    /\ Shown(gddram) # fb

RECURSIVE Concat(_)
Concat(qs) ==
    IF qs = <<>> THEN <<>> ELSE Head(qs) \o Concat(Tail(qs))

\* the bytes of the data transmissions of flush: the bus writes after the
\* initialization commands and the two draw-area commands
FlushedBytes ==
    Concat([i \in 1..(Len(SpiEvents) - NumInitCmds - 2) |->
               SpiEvents[NumInitCmds + 2 + i].data])

\* C8: when flush has returned success, the bytes sent as data are the whole
\* frame buffer (every page, every column, in the controller's order), and the
\* display shows exactly the frame buffer; so it does in the idle loop.
C8_FlushWhole ==
    pc \in {"print_done", "print_exit", "idle"} =>
        /\ Succeeded("flush")
        /\ Len(FlushedBytes) = 1024
        /\ \A x \in 0..127, y \in 0..63 :
              (<<x, y>> \in fb) <=>
                  ((FlushedBytes[(y \div 8) * 128 + x + 1] \div Pow2(y % 8)) % 2 = 1)
        /\ Shown(gddram) = fb

C8_Witness ==
    /\ pc = "idle"
    /\ SceneCircle \subseteq fb /\ SceneText1("box") \subseteq fb
    /\ Shown(gddram) = fb

\* the outline the scene's circle is said to have: 1-pixel stroke, centre
\* (64, 32), radius 8
ClaimedCircle ==
    CircleStroke(CircleCenterRadius(<<64, 32>>, 8).top_left,
                 CircleCenterRadius(<<64, 32>>, 8).diameter)

\* C9: when the circle has been drawn (after the triangle, before the
\* rectangle), the pixels it has lit are those of a 1-pixel stroke of the
\* circle with centre (64, 32) and radius 8.
C9_CircleCentred ==
    pc = "draw_rectangle" => (fb \ SceneTriangle) = ClaimedCircle

\* C10: "Drawing shapes and text..." is on the output only when init and
\* clear have succeeded; the success line is on the output only when flush
\* has succeeded, and then main has not returned an error.
C10_OutputConsistent ==
    /\ MSG_DRAW \in Range(stdout) => (Succeeded("init") /\ Succeeded("clear"))
    /\ MSG_DONE \in Range(stdout) => (Succeeded("flush") /\ exit # "Err" /\ pc # "returned")
    /\ \A i \in 1..Len(oplog) : ~oplog[i].ok => MSG_DONE \notin Range(stdout)

C10_Witness ==
    /\ stdout = <<MSG_INIT, MSG_DRAW, MSG_DONE, MSG_EXIT>>
    /\ pc = "idle"

====
